---- MODULE Spec2Model ----
(***************************************************************************)
(* Model of website/script.js, the dashboard script of the ML forecasting  *)
(* project: the state store APP_STATE, the theme toggle and the chart      *)
(* (re)construction with its retry timer, the three export operations with *)
(* the loading overlay and the notifications, and the prediction form.     *)
(*                                                                         *)
(* The browser runs one handler at a time (run to completion), so every    *)
(* action below is one whole event: a click, a key press, a timer firing,  *)
(* a promise settling, a library finishing to load.                        *)
(***************************************************************************)
EXTENDS Integers, Sequences, FiniteSets, TLC

\* ------------------------------------------------------------------ bounds

\* Theme-toggle clicks explored in one session.
MaxToggles == 3
\* Firings of the 500 ms retry timer that still find Chart undefined.
MaxRetries == 2
\* Export invocations (clicks and shortcuts) explored in one session.
MaxExports == 2
\* Chart canvases inside .chart-container elements of the page, at most.
MaxCanvases == 2
\* The longest series of a forecast bundle.
MaxLen == 2
\* The largest values typed into the therapies and side-effects fields.
MaxTherapies == 3
MaxSideEffects == 3
\* Random draws explored next to each end and to the middle of their ranges.
NoiseEdge == 2
JitterEdge == 0
\* Notifications issued in a session before Ctrl+K is explored no further.
MaxNotes == 3

\* ------------------------------------------------------------------- state

VARIABLES
    \* localStorage entry 'theme': "absent", "light", "dark" or "other" (any
    \* other string another page of the origin or the user left there)
    stored,
    \* APP_STATE.currentTheme
    currentTheme,
    \* document.body carries the class 'dark-mode'
    bodyDark,
    \* typeof Chart !== 'undefined'
    ChartLoaded,
    \* the chart canvases the page holds (document.getElementById(...) non-null)
    surfaces,
    \* pending setTimeout(initializeCharts, 500) timers
    retryTimers,
    \* retry firings so far that found Chart still undefined
    retriesFired,
    \* APP_STATE.charts: chart id -> index into handles, 0 when the key is unset
    charts,
    \* every Chart instance constructed in the session, in construction order:
    \* [id, dark (built with the dark palette), destroyed (destroy() calls)]
    handles,
    \* the calls the last event made, in order: <<"destroy", h>>, <<"create", h>>,
    \* <<"retry", 0>> (a retry timer was scheduled), <<"throw", 0>>
    evlog,
    \* theme-toggle clicks so far
    toggles,
    \* the last two events with the state each one started from
    snaps,
    \* typeof html2canvas !== 'undefined', typeof jspdf !== 'undefined'
    html2canvasLoaded, jspdfLoaded,
    \* the page holds #loading-overlay; it carries the class 'active'
    overlayEl, overlay,
    \* the setTimeout(hideLoadingOverlay, 1000) of DOMContentLoaded is pending
    initTimer,
    \* the notifications in the page, oldest first: [kind, via, phase], phase
    \* "shown" until the 3000 ms timer fires, then "hiding" until the 300 ms one
    notes,
    \* export invocations so far
    exportsCount,
    \* document.querySelectorAll('.chart-container canvas').length
    nCanvas,
    \* one record per exportChartsAsImages invocation that called html2canvas
    batches,
    \* what the last event did: [op, toasts (the kinds of the notifications it
    \* issued, in order), downloads (how many it triggered), calls (the jsPDF
    \* calls it made), threw (an exception was raised in it)]
    last,
    \* SAMPLE_FORECAST_DATA: [dates, prophet, ebm, actual]; a date is a day
    \* number, a value a count of eighths of a step (exact in binary floating
    \* point)
    bundle,
    \* the text of the last CSV file downloaded, as its tokens in order: the
    \* separators ',' and '\n' and the fields between them
    csvFile,
    \* the prediction form: [date, therapies, sideEffects, lastWeekSteps], each
    \* numeric field what parseInt makes of its text: an integer or NaN
    form,
    \* the results in #prediction-result: none before the first submission, then
    \* the one handed last to displayPredictionResult
    shown,
    \* APP_STATE.currentPrediction
    currentPrediction,
    \* what the two Math.random() calls of the last submission returned, none
    \* before the first: [noiseHalves, jitter]
    draws,
    \* the last submission drew the same two random values as the one before it
    rerun,
    \* the points of the residual plot computed last from the bundle, none before
    \* the first computation: a sequence holding the sequence of points
    residualData,
    \* the bar heights of the error histogram computed last, held the same way
    histogramData,
    \* the labels and the three series handed last to the forecast-comparison
    \* chart, held the same way: [labels, actual, prophet, ebm]
    forecastData,
    \* elements of the page with the id 'shortcuts-modal'
    modal,
    \* the last two of the events '?', "Escape" and "close" (a click on the
    \* modal's Close button), oldest first
    helpKeys,
    \* notifications removed from the page so far: the i-th notification of the
    \* page is the (removedNotes + i)-th one issued in the session
    removedNotes

themeVars == <<stored, currentTheme, bodyDark, ChartLoaded, surfaces,
               retryTimers, retriesFired, charts, handles, evlog, toggles, snaps>>

exportVars == <<html2canvasLoaded, jspdfLoaded, overlayEl, overlay, initTimer, notes,
                exportsCount, nCanvas, batches, last, bundle, csvFile>>

predictVars == <<form, shown, currentPrediction, draws, rerun>>

dataVars == <<residualData, histogramData, forecastData>>

keyVars == <<modal, helpKeys, removedNotes>>

vars == <<themeVars, exportVars, predictVars, dataVars, keyVars>>

\* The keys of APP_STATE.charts in the order initializeCharts assigns them.
ChartIds == <<"forecast", "featureImportance", "residual", "errorDist">>

ChartIdSet == {ChartIds[i] : i \in 1..Len(ChartIds)}

StoredValues == {"absent", "light", "dark", "other"}

\* ------------------------------------------------------------ chart handles

Live(hs) == {k \in 1..Len(hs) : hs[k].destroyed = 0}

\* A chart library that builds a second chart on a canvas in use.
CanvasReused == FALSE

\* The page loads Chart.js 3.9.1 (README, technology table; the chart options in
\* script.js are those of Chart.js 3: indexAxis, scales.x, plugins.title). From
\* 3.0 on `new Chart` on a canvas that a chart not yet destroyed uses throws
\* "Canvas is already in use"; the exception leaves the handler that called it.
CanvasInUseThrows == TRUE

\* new Chart(ctx, {...colours chosen by isDark...}) assigned to APP_STATE.charts[id],
\* after `if (!ctx) return`. st is the handler's running state.
CreateChart(st, id) ==
    IF st.thrown \/ id \notin surfaces THEN st
    ELSE IF CanvasInUseThrows /\ (\E k \in Live(st.handles) : st.handles[k].id = id)
    THEN [st EXCEPT !.thrown = TRUE, !.log = Append(@, <<"throw", 0>>)]
    ELSE LET h == Len(st.handles) + 1
         IN  [st EXCEPT !.handles = Append(@, [id |-> id,
                                                dark |-> (st.theme = "dark"),
                                                destroyed |-> 0]),
                        !.charts[id] = h,
                        !.log = Append(@, <<"create", h>>)]

createForecastComparisonChart(st) == CreateChart(st, "forecast")

createFeatureImportanceChart(st) == CreateChart(st, "featureImportance")

createResidualPlot(st) == CreateChart(st, "residual")

createErrorDistributionChart(st) == CreateChart(st, "errorDist")

initializeCharts(st) ==
    IF ~ChartLoaded
    THEN [st EXCEPT !.timers = @ + 1, !.log = Append(@, <<"retry", 0>>)]
    ELSE createErrorDistributionChart(
             createResidualPlot(
                 createFeatureImportanceChart(
                     createForecastComparisonChart(st))))

\* Object.values(APP_STATE.charts).forEach(chart => { if (chart) chart.destroy(); })
\* over the keys from position i on.
RECURSIVE DestroyFrom(_, _)
DestroyFrom(st, i) ==
    IF i > Len(ChartIds) THEN st
    ELSE LET h == st.charts[ChartIds[i]]
         IN  IF h = 0 THEN DestroyFrom(st, i + 1)
             ELSE DestroyFrom([st EXCEPT !.handles[h].destroyed = @ + 1,
                                         !.log = Append(@, <<"destroy", h>>)],
                              i + 1)

DestroyAll(st) == DestroyFrom(st, 1)

\* The handler's running state at the start of an event.
Running(theme) ==
    [theme |-> theme, charts |-> charts, handles |-> handles,
     timers |-> retryTimers, log |-> <<>>, thrown |-> FALSE]

Snapshot ==
    [stored |-> stored, currentTheme |-> currentTheme, charts |-> charts,
     handles |-> handles]

Remember(ev) ==
    LET e == [ev |-> ev, pre |-> Snapshot]
    IN  snaps' = IF Len(snaps) = 0 THEN <<e>> ELSE <<snaps[Len(snaps)], e>>

\* ------------------------------------------------------------------- theme

\* The click handler without the disposal loop.
ToggleRebuild_NoDispose(theme) == initializeCharts(Running(theme))

\* The click handler with the rebuild before the disposal.
ToggleRebuild_RebuildFirst(theme) == DestroyAll(initializeCharts(Running(theme)))

\* The click handler of #theme-toggle: flip the theme, persist it, dispose every
\* chart handle, rebuild.
ToggleRebuild(theme) == initializeCharts(DestroyAll(Running(theme)))

\* A flip that leaves a theme that is neither 'light' nor 'dark' as it is.
FlipTheme_KeepsUnknown(theme) ==
    IF theme = "light" THEN "dark" ELSE IF theme = "dark" THEN "light" ELSE theme

\* APP_STATE.currentTheme === 'light' ? 'dark' : 'light'
FlipTheme(theme) == IF theme = "light" THEN "dark" ELSE "light"

ThemeToggleClick ==
    /\ toggles < MaxToggles
    /\ LET theme == FlipTheme(currentTheme)
           st == ToggleRebuild(theme)
       IN  /\ currentTheme' = theme
           /\ bodyDark' = ~bodyDark
           /\ stored' = theme
           /\ charts' = st.charts
           /\ handles' = st.handles
           /\ retryTimers' = st.timers
           /\ evlog' = st.log
    /\ toggles' = toggles + 1
    /\ Remember("toggle")
    /\ UNCHANGED <<ChartLoaded, surfaces, retriesFired>>
    /\ UNCHANGED <<exportVars, predictVars, dataVars, keyVars>>

\* A setTimeout(initializeCharts, 500) timer fires.
RetryTimerFires ==
    /\ retryTimers > 0
    /\ ChartLoaded \/ retriesFired < MaxRetries
    /\ LET st == initializeCharts([Running(currentTheme) EXCEPT !.timers = @ - 1])
       IN  /\ charts' = st.charts
           /\ handles' = st.handles
           /\ retryTimers' = st.timers
           /\ evlog' = st.log
    /\ retriesFired' = IF ChartLoaded THEN retriesFired ELSE retriesFired + 1
    /\ Remember("retry")
    /\ UNCHANGED <<stored, currentTheme, bodyDark, ChartLoaded, surfaces, toggles>>
    /\ UNCHANGED <<exportVars, predictVars, dataVars, keyVars>>

\* The Chart.js script finishes loading.
ChartLibraryLoads ==
    /\ ~ChartLoaded
    /\ ChartLoaded' = TRUE
    /\ evlog' = <<>>
    /\ Remember("load")
    /\ UNCHANGED <<stored, currentTheme, bodyDark, surfaces, retryTimers,
                   retriesFired, charts, handles, toggles>>
    /\ UNCHANGED <<exportVars, predictVars, dataVars, keyVars>>

\* The state the DOMContentLoaded handler leaves: APP_STATE as constructed, the
\* saved theme applied to the body, initializeCharts run once.
ThemeInit ==
    /\ stored \in StoredValues
    /\ currentTheme = (IF stored = "absent" THEN "light" ELSE stored)
    /\ bodyDark = (currentTheme = "dark")
    /\ ChartLoaded \in BOOLEAN
    /\ surfaces \in {ChartIdSet, {"forecast", "residual"}, {}}
    /\ retriesFired = 0
    /\ toggles = 0
    /\ snaps = <<>>
    /\ LET st == initializeCharts(
                    [theme |-> currentTheme,
                     charts |-> [c \in ChartIdSet |-> 0],
                     handles |-> <<>>, timers |-> 0, log |-> <<>>, thrown |-> FALSE])
       IN  /\ charts = st.charts
           /\ handles = st.handles
           /\ retryTimers = st.timers
           /\ evlog = st.log

\* The page is loaded again: the script runs from its first line with the
\* localStorage entry the last session left; APP_STATE, the charts and the
\* pending timers of the old page are gone.
NewSession ==
    /\ currentTheme' = (IF stored = "absent" THEN "light" ELSE stored)
    /\ bodyDark' = (currentTheme' = "dark")
    /\ retriesFired' = 0
    /\ toggles' = 0
    /\ LET st == initializeCharts(
                    [theme |-> currentTheme',
                     charts |-> [c \in ChartIdSet |-> 0],
                     handles |-> <<>>, timers |-> 0, log |-> <<>>, thrown |-> FALSE])
       IN  /\ charts' = st.charts
           /\ handles' = st.handles
           /\ retryTimers' = st.timers
           /\ evlog' = st.log
    /\ Remember("session")
    /\ UNCHANGED <<stored, ChartLoaded, surfaces>>
    /\ UNCHANGED <<exportVars, predictVars, dataVars, keyVars>>

\* --------------------------------------------- overlay and notifications

Kinds == {"info", "success", "warning", "error", "plain"}

\* The running state of a handler: the overlay, the notifications in the page,
\* and what the handler did so far (the kinds of the notifications it issued, in
\* order, and the downloads it triggered).
Page == [overlay |-> overlay, notes |-> notes, toasts |-> <<>>, downloads |-> 0]

showLoadingOverlay(pg) == IF overlayEl THEN [pg EXCEPT !.overlay = TRUE] ELSE pg

hideLoadingOverlay(pg) == IF overlayEl THEN [pg EXCEPT !.overlay = FALSE] ELSE pg

\* A toast whose dismissal timer is never set.
showToast_Pinned(pg, kind) ==
    [pg EXCEPT !.notes = Append(@, [kind |-> kind, via |-> "toast", phase |-> "pinned"]),
               !.toasts = Append(@, kind)]

\* A page with one slot for notifications: a new toast takes the place of the
\* ones shown.
showToast_SingleSlot(pg, kind) ==
    [pg EXCEPT !.notes = <<[kind |-> kind, via |-> "toast", phase |-> "shown"]>>,
               !.toasts = Append(@, kind)]

\* showToast(message, type): the toast joins the page and its timer starts.
showToast(pg, kind) ==
    [pg EXCEPT !.notes = Append(@, [kind |-> kind, via |-> "toast", phase |-> "shown"]),
               !.toasts = Append(@, kind)]

\* showNotification(message): the green notification, which has no kind.
showNotification(pg) ==
    [pg EXCEPT !.notes = Append(@, [kind |-> "plain", via |-> "notification",
                                    phase |-> "shown"]),
               !.toasts = Append(@, "plain")]

\* link.click() on a link that carries the file.
triggerDownload(pg) == [pg EXCEPT !.downloads = @ + 1]

\* The handler returns: what it did becomes the page, and `last` records it.
Commit(op, pg, calls, threw) ==
    /\ overlay' = pg.overlay
    /\ notes' = pg.notes
    /\ last' = [op |-> op, toasts |-> pg.toasts, downloads |-> pg.downloads,
                calls |-> calls, threw |-> threw]

Count(seq, x) == Cardinality({i \in 1..Len(seq) : seq[i] = x})

\* ------------------------------------------------------------- CSV export

\* toFixed(2) with the digits after the second decimal cut off.
ToFixed2_Truncates(v8) ==
    IF v8 >= 0 THEN (v8 * 25) \div 2 ELSE -((-v8 * 25) \div 2)

\* Number.prototype.toFixed(2) of v8 / 8, in hundredths: the nearest multiple of
\* 0.01, the larger in magnitude when two are equally near.
ToFixed2(v8) ==
    IF v8 >= 0 THEN (v8 * 25 + 1) \div 2 ELSE -((-v8 * 25 + 1) \div 2)

\* prophet[i] or ebm[i] is undefined for some date: undefined.toFixed raises a
\* TypeError.
CsvThrows(b) ==
    \E i \in 1..Len(b.dates) : i > Len(b.prophet) \/ i > Len(b.ebm)

\* The tokens of the CSV text. A field holds no ',' and no '\n': the header
\* names are literals, a date is toISOString().split('T')[0], a number is the
\* digits toFixed(2) prints.
Sep(c) == [t |-> "sep", s |-> c, n |-> 0, f |-> 0]

TextField(name) == [t |-> "text", s |-> name, n |-> 0, f |-> 0]

DateField(day) == [t |-> "date", s |-> "", n |-> day, f |-> 0]

\* The text toFixed(2) prints for h hundredths: a sign, the integer digits, a
\* point and two decimals.
NumField(h) ==
    [t |-> "num", s |-> IF h < 0 THEN "-" ELSE "",
     n |-> (IF h < 0 THEN -h ELSE h) \div 100, f |-> (IF h < 0 THEN -h ELSE h) % 100]

\* Array.prototype.join: the parts with the separator between them.
RECURSIVE Join(_, _)
Join(parts, c) ==
    IF Len(parts) = 0 THEN <<>>
    ELSE IF Len(parts) = 1 THEN parts[1]
    ELSE parts[1] \o <<Sep(c)>> \o Join(Tail(parts), c)

\* The rows without the header row.
CsvRows_NoHeader(b) ==
    [i \in 1..Len(b.dates) |->
        <<<<DateField(b.dates[i])>>, <<NumField(ToFixed2(b.prophet[i]))>>,
          <<NumField(ToFixed2(b.ebm[i]))>>>>]

\* The rows of csvContent before they are joined with ',' and '\n'.
CsvRows(b) ==
    <<<<<<TextField("Date")>>, <<TextField("Prophet_Forecast")>>,
        <<TextField("EBM_Forecast")>>>>>> \o
    [i \in 1..Len(b.dates) |->
        <<<<DateField(b.dates[i])>>, <<NumField(ToFixed2(b.prophet[i]))>>,
          <<NumField(ToFixed2(b.ebm[i]))>>>>]

\* .map(row => row.join(',')).join('\n')
CsvText(rows) == Join([i \in 1..Len(rows) |-> Join(rows[i], ",")], "\n")

\* exportToCSV: it has no try/catch, so an exception raised while the rows are
\* built leaves the handler before anything is downloaded or notified.
exportToCSV ==
    /\ exportsCount < MaxExports
    /\ exportsCount' = exportsCount + 1
    /\ IF CsvThrows(bundle)
       THEN /\ Commit("exportToCSV", Page, <<>>, TRUE)
            /\ UNCHANGED csvFile
       ELSE /\ csvFile' = CsvText(CsvRows(bundle))
            /\ Commit("exportToCSV", showNotification(triggerDownload(Page)), <<>>,
                      FALSE)
    /\ UNCHANGED <<html2canvasLoaded, jspdfLoaded, overlayEl, initTimer, nCanvas,
                   batches, bundle>>
    /\ UNCHANGED <<themeVars, predictVars, dataVars, keyVars>>

\* ------------------------------------------------------------- PDF export

\* The jsPDF calls of exportToPDF in order: the constructor, the drawing calls,
\* save.
PdfSteps ==
    <<"new jsPDF",
      "setFontSize", "setTextColor", "text",
      "setFontSize", "setTextColor", "text",
      "setFontSize", "setTextColor", "text",
      "setFontSize", "text", "text", "text", "text", "text",
      "setFontSize", "text",
      "setFontSize", "text", "text", "text", "text", "text", "text", "text", "text",
      "text",
      "setFontSize", "setTextColor", "text",
      "save">>

\* The try block with a catch that reports the error and leaves the overlay.
ComposePdf_CatchLeavesOverlay(pg, throwAt) ==
    IF throwAt = 0
    THEN showToast(hideLoadingOverlay(triggerDownload(pg)), "success")
    ELSE showToast(pg, "error")

\* The try block of exportToPDF and its catch; throwAt is the call that throws, 0
\* when none does. A save that returned wrote the file.
ComposePdf(pg, throwAt) ==
    IF throwAt = 0
    THEN showToast(hideLoadingOverlay(triggerDownload(pg)), "success")
    ELSE showToast(hideLoadingOverlay(pg), "error")

\* exportToPDF without the check of typeof jspdf: the overlay and the info toast
\* come first, then the try block fails at its first line and the catch runs.
exportToPDF_NoCapabilityCheck(throwAt) ==
    /\ exportsCount < MaxExports
    /\ exportsCount' = exportsCount + 1
    /\ IF ~jspdfLoaded
       THEN /\ throwAt = 0
            /\ Commit("exportToPDF",
                      ComposePdf(showToast(showLoadingOverlay(Page), "info"), 1),
                      <<>>, TRUE)
       ELSE Commit("exportToPDF",
                   ComposePdf(showToast(showLoadingOverlay(Page), "info"), throwAt),
                   IF throwAt = 0 THEN PdfSteps ELSE SubSeq(PdfSteps, 1, throwAt),
                   throwAt # 0)
    /\ UNCHANGED <<html2canvasLoaded, jspdfLoaded, overlayEl, initTimer, nCanvas,
                   batches, bundle, csvFile>>
    /\ UNCHANGED <<themeVars, predictVars, dataVars, keyVars>>

\* exportToPDF (the later of the two declarations, which is the one bound to the
\* name).
exportToPDF(throwAt) ==
    /\ exportsCount < MaxExports
    /\ exportsCount' = exportsCount + 1
    /\ IF ~jspdfLoaded
       THEN /\ throwAt = 0
            /\ Commit("exportToPDF", showToast(Page, "error"), <<>>, FALSE)
       ELSE Commit("exportToPDF",
                   ComposePdf(showToast(showLoadingOverlay(Page), "info"), throwAt),
                   IF throwAt = 0 THEN PdfSteps ELSE SubSeq(PdfSteps, 1, throwAt),
                   throwAt # 0)
    /\ UNCHANGED <<html2canvasLoaded, jspdfLoaded, overlayEl, initTimer, nCanvas,
                   batches, bundle, csvFile>>
    /\ UNCHANGED <<themeVars, predictVars, dataVars, keyVars>>

\* ----------------------------------------------------- chart image export

\* The closure of one exportChartsAsImages invocation: n is chartElements.length,
\* exportedCount the variable of that name, rejected the promises that ended in
\* the .catch callback; the promises still pending are the rest.
NewBatch ==
    [n |-> nCanvas, exportedCount |-> 0, rejected |-> 0, downloads |-> 0,
     successToasts |-> 0, errorToasts |-> 0, lateDownload |-> FALSE]

Pending(bt) == bt.n - bt.exportedCount - bt.rejected

\* exportChartsAsImages with the overlay and the info toast before the check of
\* typeof html2canvas.
exportChartsAsImages_LateCheck ==
    /\ exportsCount < MaxExports
    /\ exportsCount' = exportsCount + 1
    /\ IF ~html2canvasLoaded
       THEN /\ Commit("exportChartsAsImages",
                      showToast(showToast(showLoadingOverlay(Page), "info"), "error"),
                      <<>>, FALSE)
            /\ UNCHANGED batches
       ELSE /\ Commit("exportChartsAsImages",
                      showToast(showLoadingOverlay(Page), "info"), <<>>, FALSE)
            /\ batches' = Append(batches, NewBatch)
    /\ UNCHANGED <<html2canvasLoaded, jspdfLoaded, overlayEl, initTimer, nCanvas,
                   bundle, csvFile>>
    /\ UNCHANGED <<themeVars, predictVars, dataVars, keyVars>>

\* exportChartsAsImages (the later declaration): html2canvas is called for every
\* canvas before the handler returns; the promises settle in later events.
exportChartsAsImages ==
    /\ exportsCount < MaxExports
    /\ exportsCount' = exportsCount + 1
    /\ IF ~html2canvasLoaded
       THEN /\ Commit("exportChartsAsImages", showToast(Page, "error"), <<>>, FALSE)
            /\ UNCHANGED batches
       ELSE /\ Commit("exportChartsAsImages",
                      showToast(showLoadingOverlay(Page), "info"), <<>>, FALSE)
            /\ batches' = Append(batches, NewBatch)
    /\ UNCHANGED <<html2canvasLoaded, jspdfLoaded, overlayEl, initTimer, nCanvas,
                   bundle, csvFile>>
    /\ UNCHANGED <<themeVars, predictVars, dataVars, keyVars>>

\* The .then callback reporting success once every promise has settled, the
\* rejected ones included.
ThenCallback_CountsSettled(bt, pg) ==
    LET count == bt.exportedCount + 1
        all == count + bt.rejected = bt.n
        pg1 == triggerDownload(pg)
    IN  [batch |-> [bt EXCEPT !.exportedCount = count,
                              !.downloads = @ + 1,
                              !.lateDownload = @ \/ bt.rejected > 0,
                              !.successToasts = IF all THEN @ + 1 ELSE @],
         page |-> IF all THEN showToast(hideLoadingOverlay(pg1), "success") ELSE pg1]

\* The .then callback of one canvas: download the image, count it, and report
\* success when the count reaches the number of canvases.
ThenCallback(bt, pg) ==
    LET count == bt.exportedCount + 1
        all == count = bt.n
        pg1 == triggerDownload(pg)
    IN  [batch |-> [bt EXCEPT !.exportedCount = count,
                              !.downloads = @ + 1,
                              !.lateDownload = @ \/ bt.rejected > 0,
                              !.successToasts = IF all THEN @ + 1 ELSE @],
         page |-> IF all THEN showToast(hideLoadingOverlay(pg1), "success") ELSE pg1]

\* The .catch callback of one canvas (html2canvas rejected, or the .then callback
\* threw at toDataURL before it downloaded anything).
CatchCallback(bt, pg) ==
    [batch |-> [bt EXCEPT !.rejected = @ + 1,
                          !.errorToasts = @ + 1],
     page |-> showToast(hideLoadingOverlay(pg), "error")]

\* One pending promise of batch b resolves.
RasterizeResolves(b) ==
    /\ Pending(batches[b]) > 0
    /\ LET r == ThenCallback(batches[b], Page)
       IN  /\ batches' = [batches EXCEPT ![b] = r.batch]
           /\ Commit("then", r.page, <<>>, FALSE)
    /\ UNCHANGED <<html2canvasLoaded, jspdfLoaded, overlayEl, initTimer, nCanvas,
                   exportsCount, bundle, csvFile>>
    /\ UNCHANGED <<themeVars, predictVars, dataVars, keyVars>>

\* One pending promise of batch b rejects.
RasterizeRejects(b) ==
    /\ Pending(batches[b]) > 0
    /\ LET r == CatchCallback(batches[b], Page)
       IN  /\ batches' = [batches EXCEPT ![b] = r.batch]
           /\ Commit("catch", r.page, <<>>, FALSE)
    /\ UNCHANGED <<html2canvasLoaded, jspdfLoaded, overlayEl, initTimer, nCanvas,
                   exportsCount, bundle, csvFile>>
    /\ UNCHANGED <<themeVars, predictVars, dataVars, keyVars>>

\* -------------------------------------------------- timers and libraries

\* The setTimeout(hideLoadingOverlay, 1000) of the DOMContentLoaded handler.
InitTimerFires ==
    /\ initTimer
    /\ initTimer' = FALSE
    /\ Commit("hideLoadingOverlay", hideLoadingOverlay(Page), <<>>, FALSE)
    /\ UNCHANGED <<html2canvasLoaded, jspdfLoaded, overlayEl, nCanvas, exportsCount,
                   batches, bundle, csvFile>>
    /\ UNCHANGED <<themeVars, predictVars, dataVars, keyVars>>

\* The 3000 ms timer of the oldest notification still shown: timers of equal
\* delay fire in the order they were set.
NoteFades ==
    /\ \E i \in 1..Len(notes) :
           /\ notes[i].phase = "shown"
           /\ \A j \in 1..(i - 1) : notes[j].phase = "hiding"
           /\ notes' = [notes EXCEPT ![i].phase = "hiding"]
    /\ UNCHANGED <<html2canvasLoaded, jspdfLoaded, overlayEl, overlay, initTimer,
                   nCanvas, exportsCount, batches, last, bundle, csvFile>>
    /\ UNCHANGED <<themeVars, predictVars, dataVars, keyVars>>

\* The 300 ms timer of the oldest notification: it leaves the page.
NoteRemoved ==
    /\ Len(notes) > 0
    /\ notes[1].phase = "hiding"
    /\ notes' = Tail(notes)
    /\ removedNotes' = removedNotes + 1
    /\ UNCHANGED <<html2canvasLoaded, jspdfLoaded, overlayEl, overlay, initTimer,
                   nCanvas, exportsCount, batches, last, bundle, csvFile>>
    /\ UNCHANGED <<themeVars, predictVars, dataVars, modal, helpKeys>>

Html2canvasLoads ==
    /\ ~html2canvasLoaded
    /\ html2canvasLoaded' = TRUE
    /\ UNCHANGED <<jspdfLoaded, overlayEl, overlay, initTimer, notes, nCanvas,
                   exportsCount, batches, last, bundle, csvFile>>
    /\ UNCHANGED <<themeVars, predictVars, dataVars, keyVars>>

JspdfLoads ==
    /\ ~jspdfLoaded
    /\ jspdfLoaded' = TRUE
    /\ UNCHANGED <<html2canvasLoaded, overlayEl, overlay, initTimer, notes, nCanvas,
                   exportsCount, batches, last, bundle, csvFile>>
    /\ UNCHANGED <<themeVars, predictVars, dataVars, keyVars>>

\* The page as the DOMContentLoaded handler leaves it: the overlay shown, its
\* timer pending, nothing exported.
ExportStart ==
    /\ overlay = overlayEl
    /\ initTimer = TRUE
    /\ notes = <<>>
    /\ exportsCount = 0
    /\ batches = <<>>
    /\ csvFile = <<>>
    /\ last = [op |-> "DOMContentLoaded", toasts |-> <<>>, downloads |-> 0,
               calls |-> <<>>, threw |-> FALSE]

\* SAMPLE_FORECAST_DATA is built with one length for dates, prophet and ebm and a
\* shorter actual series; the values are 7500 + random and above.
SampleBundle ==
    [dates |-> <<1, 2>>, prophet |-> <<8000 * 8 + 1, 9000 * 8 + 4>>,
     ebm |-> <<7500 * 8, 8200 * 8 + 7>>, actual |-> <<8200 * 8 + 3>>]

ExportInit ==
    /\ bundle = SampleBundle
    /\ html2canvasLoaded \in BOOLEAN
    /\ jspdfLoaded \in BOOLEAN
    /\ overlayEl \in BOOLEAN
    /\ nCanvas \in 0..MaxCanvases
    /\ ExportStart

\* ------------------------------------------------- residuals, histogram

\* A number as a set: NaN the empty set, v the set {v}.
Num(v) == {v}

\* SAMPLE_FORECAST_DATA.actual.map((actual, i) => ({x: actual, y: actual -
\* SAMPLE_FORECAST_DATA.ebm[i]})): one point per actual value; ebm[i] is undefined
\* past the end of ebm and actual - undefined is NaN.
ResidualPoints(actual, predicted) ==
    [i \in 1..Len(actual) |->
        [x |-> actual[i],
         y |-> IF i <= Len(predicted) THEN Num(actual[i] - predicted[i]) ELSE {}]]

\* SAMPLE_FORECAST_DATA.actual.map((actual, i) => Math.abs(actual -
\* SAMPLE_FORECAST_DATA.ebm[i]))
AbsoluteErrors(actual, predicted) ==
    [i \in 1..Len(actual) |->
        IF i <= Len(predicted)
        THEN Num(IF actual[i] >= predicted[i] THEN actual[i] - predicted[i]
                 ELSE predicted[i] - actual[i])
        ELSE {}]

\* const bins = [0, 500, ..., 4000], in eighths of a step like the values.
bins == [j \in 1..9 |-> 8 * 500 * (j - 1)]

\* A histogram whose bins take their upper edge as well.
Histogram_UpperEdgeIncluded(errors, edges) ==
    [j \in 1..(Len(edges) - 1) |->
        Cardinality({i \in 1..Len(errors) :
            \E e \in errors[i] : e >= edges[j] /\ e <= edges[j + 1]})]

\* bins.slice(0, -1).map((bin, i) => errors.filter(e => e >= bin && e <
\* bins[i + 1]).length); a comparison with NaN is false.
Histogram(errors, edges) ==
    [j \in 1..(Len(edges) - 1) |->
        Cardinality({i \in 1..Len(errors) :
            \E e \in errors[i] : e >= edges[j] /\ e < edges[j + 1]})]

\* The residual points are computed from the bundle.
\* slice(0, 90) of the forecast-comparison chart.
ChartWindow == 90
\* The lengths SAMPLE_FORECAST_DATA is built with.
SampleDays == 365
SampleActualDays == 100

ComputeResiduals ==
    /\ residualData' = <<ResidualPoints(bundle.actual, bundle.ebm)>>
    /\ UNCHANGED <<histogramData, forecastData>>
    /\ UNCHANGED <<themeVars, exportVars, predictVars, keyVars>>

\* The error histogram is computed from the bundle.
ComputeErrorHistogram ==
    /\ histogramData' = <<Histogram(AbsoluteErrors(bundle.actual, bundle.ebm), bins)>>
    /\ UNCHANGED <<residualData, forecastData>>
    /\ UNCHANGED <<themeVars, exportVars, predictVars, keyVars>>

\* The first n elements of a sequence: array.slice(0, n).
Slice(seq, n) == SubSeq(seq, 1, IF Len(seq) < n THEN Len(seq) ELSE n)

\* The data of the forecast-comparison chart: the labels and the Prophet and EBM
\* series are cut to ChartWindow points, the Actual series is handed whole.
ForecastChartData(b) ==
    [labels |-> Slice(b.dates, ChartWindow),
     actual |-> b.actual,
     prophet |-> Slice(b.prophet, ChartWindow),
     ebm |-> Slice(b.ebm, ChartWindow)]

\* The forecast-comparison chart is given its data from the bundle.
BuildForecastChart ==
    /\ forecastData' = <<ForecastChartData(bundle)>>
    /\ UNCHANGED <<residualData, histogramData>>
    /\ UNCHANGED <<themeVars, exportVars, predictVars, keyVars>>

DataStart ==
    /\ residualData = <<>>
    /\ histogramData = <<>>
    /\ forecastData = <<>>

\* The values a series is drawn from, in eighths of a step.
ForecastValues == {8000 * 8 + 1, 9000 * 8 + 4}

PredictedValues == {7500 * 8, 8000 * 8, 10999 * 8 + 3}

ActualValues == {8500 * 8, 11500 * 8, 11999 * 8 + 7}

SeqsUpTo(values, n) == UNION {[1..k -> values] : k \in 0..n}

\* The bundles explored: dates and prophet of one length, ebm and actual of any
\* length.
Bundles ==
    {[dates |-> [i \in 1..Len(p) |-> i], prophet |-> p, ebm |-> e, actual |-> a] :
        p \in SeqsUpTo(ForecastValues, MaxLen),
        e \in SeqsUpTo(PredictedValues, MaxLen),
        a \in SeqsUpTo(ActualValues, MaxLen)}

\* len(dates) = len(prophet) = len(ebm) and len(actual) <= len(dates).
WellFormed(b) ==
    /\ Len(b.prophet) = Len(b.dates)
    /\ Len(b.ebm) = Len(b.dates)
    /\ Len(b.actual) <= Len(b.dates)

\* A bundle of the size SAMPLE_FORECAST_DATA has in the page.
FullSampleBundle ==
    [dates |-> [i \in 1..SampleDays |-> i],
     prophet |-> [i \in 1..SampleDays |-> 8000 * 8 + 1],
     ebm |-> [i \in 1..SampleDays |-> 7500 * 8],
     actual |-> [i \in 1..SampleActualDays |-> 8500 * 8]]

ForecastInit ==
    /\ bundle \in Bundles \cup {FullSampleBundle}
    /\ html2canvasLoaded = TRUE
    /\ jspdfLoaded = TRUE
    /\ overlayEl = TRUE
    /\ nCanvas = Cardinality(surfaces)
    /\ ExportStart
    /\ DataStart

DataInit ==
    /\ bundle \in Bundles
    /\ html2canvasLoaded = TRUE
    /\ jspdfLoaded = TRUE
    /\ overlayEl = TRUE
    /\ nCanvas = Cardinality(surfaces)
    /\ ExportStart
    /\ DataStart

\* ---------------------------------------------------------- prediction

\* What parseInt makes of a field's text: NaN is the empty set, the integer n
\* the set {n}.
NaN == {}

Parsed(numbers) == {{n} : n \in numbers}

\* null, and a value that is not null, as sequences of length 0 and 1.
None == <<>>

\* A fallback of 0 for every field.
ParseIntOr_ZeroFallback(field, fallback) ==
    IF field = NaN \/ field = {0} THEN 0 ELSE CHOOSE n \in field : TRUE

\* parseInt(text) || fallback: NaN and 0 are falsy.
ParseIntOr(field, fallback) ==
    IF field = NaN \/ field = {0} THEN fallback ELSE CHOOSE n \in field : TRUE

\* Math.floor in the place of Math.round.
RoundHalves_Down(h) == h \div 2

\* Math.round of h / 2: the nearest integer, the larger one at a half.
RoundHalves(h) == (h + 1) \div 2

\* (Math.random() - 0.5) * 500 lies in [-250, 250); the draws explored, in
\* halves of a step.
NoiseHalves ==
    ((-500)..(-500 + NoiseEdge)) \cup ((-NoiseEdge)..NoiseEdge)
        \cup ((499 - NoiseEdge)..499)

\* Math.random() * 0.1 lies in [0, 0.1); the draws explored, in 1/10000.
JitterDraws == (0..JitterEdge) \cup ((999 - JitterEdge)..999)

\* The largest power of two P with P * den <= num, from P upwards.
RECURSIVE Pow2Floor(_, _, _)
Pow2Floor(num, den, P) ==
    IF 2 * P * den <= num THEN Pow2Floor(num, den, 2 * P) ELSE P

\* Math.round(p * 0.85) and Math.round(p * 1.15), pct being 85 or 115: the
\* integer nearest to p * pct / 100. When p * pct / 100 lies exactly halfway
\* between two integers the double product decides. The double nearest to 0.85
\* is 0.85 - 0.2 * 2^-53 and the one nearest to 1.15 is 1.15 - 0.4 * 2^-52, so the
\* exact product lies below the half by 0.2 * p * 2^-53, or by 0.8 * p * 2^-53;
\* with P the power of two at or below the product, the doubles there are
\* 2 * P * 2^-53 apart. For 0.85 the product always rounds to the half itself
\* and Math.round takes it up (0.85 * 50 gives 43); for 1.15 it does so when
\* 0.8 * p <= P (1.15 * 30 gives 35) and else rounds to a double below the half,
\* which Math.round takes down (1.15 * 50 gives 57).
ScaledRound(p, pct) ==
    IF p > 0 /\ (p * pct) % 100 = 50
    THEN IF pct = 85 \/ 8 * p <= 10 * Pow2Floor(pct * p, 100, 1)
         THEN (p * pct) \div 100 + 1
         ELSE (p * pct) \div 100
    ELSE (p * pct + 50) \div 100

\* The point estimate without Math.max(0, ...).
PointEstimate_NoClamp(therapies, sideEffects, lastWeekSteps, noiseHalves) ==
    RoundHalves(2 * (lastWeekSteps + therapies * (-200) + sideEffects * (-150))
                + noiseHalves)

\* A point estimate that starts from the prediction on display when there is
\* one.
PointEstimate_Drifts(therapies, sideEffects, lastWeekSteps, noiseHalves) ==
    LET base == IF shown = <<>> THEN lastWeekSteps ELSE shown[1].prediction
        r == RoundHalves(2 * (base + therapies * (-200) + sideEffects * (-150))
                         + noiseHalves)
    IN  IF r > 0 THEN r ELSE 0

\* prediction = Math.max(0, Math.round(basePrediction + therapyImpact +
\* sideEffectImpact + randomVariation))
PointEstimate(therapies, sideEffects, lastWeekSteps, noiseHalves) ==
    LET r == RoundHalves(2 * (lastWeekSteps + therapies * (-200)
                              + sideEffects * (-150)) + noiseHalves)
    IN  IF r > 0 THEN r ELSE 0

\* handlePredictionSubmit: read the form, estimate, display. The confidence is
\* in 1/10000.
handlePredictionSubmit ==
    \E noiseHalves \in NoiseHalves, jitter \in JitterDraws :
        LET therapies == ParseIntOr(form.therapies, 0)
            sideEffects == ParseIntOr(form.sideEffects, 0)
            lastWeekSteps == ParseIntOr(form.lastWeekSteps, 8000)
            prediction == PointEstimate(therapies, sideEffects, lastWeekSteps,
                                        noiseHalves)
        IN  /\ shown' = <<[date |-> form.date, prediction |-> prediction,
                            confidence |-> 8500 + jitter,
                            lowerBound |-> ScaledRound(prediction, 85),
                            upperBound |-> ScaledRound(prediction, 115),
                            therapies |-> therapies,
                            sideEffects |-> sideEffects]>>
            /\ draws' = <<[noiseHalves |-> noiseHalves, jitter |-> jitter]>>
            /\ rerun' = (draws' = draws)
            /\ UNCHANGED <<form, currentPrediction>>
            /\ UNCHANGED <<themeVars, exportVars, dataVars, keyVars>>

PredictStart ==
    /\ shown = None
    /\ currentPrediction = None
    /\ draws = None
    /\ rerun = FALSE

\* The form as the user has filled it in when they submit.
PredictInit ==
    /\ form \in [date : {"", "2025-06-01"},
                 therapies : {NaN} \cup Parsed((-1)..MaxTherapies),
                 sideEffects : {NaN} \cup Parsed(0..MaxSideEffects),
                 lastWeekSteps : {NaN} \cup Parsed({-300, 0, 100, 500, 8000})]
    /\ PredictStart

\* One form for the specifications that do not exercise the prediction.
PredictQuiet ==
    /\ form = [date |-> "", therapies |-> NaN, sideEffects |-> NaN,
               lastWeekSteps |-> NaN]
    /\ PredictStart

\* One page for the specifications that do not exercise the exports.
ExportQuiet ==
    /\ html2canvasLoaded = TRUE
    /\ jspdfLoaded = TRUE
    /\ overlayEl = TRUE
    /\ nCanvas = Cardinality(surfaces)
    /\ bundle = SampleBundle
    /\ ExportStart

\* One session for the specifications that do not exercise the theme.
ThemeQuiet ==
    /\ ThemeInit
    /\ stored = "absent" /\ ChartLoaded /\ surfaces = ChartIdSet

\* ------------------------------------------------------ keyboard shortcuts

\* The modal inserted without looking for one in the page.
showKeyboardShortcutsHelp_NoLookup(m) == m + 1

\* showKeyboardShortcutsHelp: the modal is inserted unless one is in the page.
showKeyboardShortcutsHelp(m) == IF m = 0 THEN 1 ELSE m

\* hideKeyboardShortcutsHelp: getElementById('shortcuts-modal'), removed when
\* it is there.
hideKeyboardShortcutsHelp(m) == IF m > 0 THEN m - 1 ELSE m

LastTwo(seq) == IF Len(seq) > 2 THEN SubSeq(seq, Len(seq) - 1, Len(seq)) ELSE seq

\* The keys the keydown handler tells apart; "x" is any other key.
Keys == {"k", "p", "e", "?", "Escape", "x"}

\* The help modal after one of the events that act on it.
HelpEvent(ev, m) ==
    /\ modal' = m
    /\ helpKeys' = LastTwo(Append(helpKeys, ev))
    /\ UNCHANGED <<themeVars, exportVars, predictVars, dataVars, removedNotes>>

\* Ctrl/Cmd+K: the toast of the search that is not there yet.
SearchShortcut ==
    /\ removedNotes + Len(notes) < MaxNotes
    /\ Commit("search", showToast(Page, "info"), <<>>, FALSE)
    /\ UNCHANGED <<html2canvasLoaded, jspdfLoaded, overlayEl, initTimer, nCanvas,
                   exportsCount, batches, bundle, csvFile>>
    /\ UNCHANGED <<themeVars, predictVars, dataVars, keyVars>>

\* The keydown handler of the document: its five ifs, of which one key press
\* satisfies at most one; any other key press changes nothing.
KeyDown ==
    \E key \in Keys, ctrlKey \in BOOLEAN, metaKey \in BOOLEAN :
        \/ (ctrlKey \/ metaKey) /\ key = "k" /\ SearchShortcut
        \/ (ctrlKey \/ metaKey) /\ key = "p"
           /\ \E throwAt \in 0..Len(PdfSteps) : exportToPDF(throwAt)
        \/ (ctrlKey \/ metaKey) /\ key = "e" /\ exportToCSV
        \/ key = "?" /\ ~ctrlKey /\ ~metaKey
           /\ HelpEvent("?", showKeyboardShortcutsHelp(modal))
        \/ key = "Escape" /\ HelpEvent("Escape", hideKeyboardShortcutsHelp(modal))

\* A click on the Close button, which is part of the modal.
CloseButtonClick ==
    /\ modal > 0
    /\ HelpEvent("close", hideKeyboardShortcutsHelp(modal))

KeyStart ==
    /\ modal = 0
    /\ helpKeys = <<>>
    /\ removedNotes = 0

\* The page while the export libraries are still loading, with the overlay of
\* the page load already hidden by its timer.
KeysInit ==
    /\ html2canvasLoaded = FALSE
    /\ jspdfLoaded = FALSE
    /\ overlayEl = TRUE
    /\ nCanvas = Cardinality(surfaces)
    /\ bundle = SampleBundle
    /\ overlay = FALSE
    /\ initTimer = FALSE
    /\ notes = <<>>
    /\ exportsCount = 0
    /\ batches = <<>>
    /\ csvFile = <<>>
    /\ last = [op |-> "hideLoadingOverlay", toasts |-> <<>>, downloads |-> 0,
               calls |-> <<>>, threw |-> FALSE]

\* --------------------------------------------------------- specifications

Init == ThemeInit /\ ExportQuiet /\ PredictQuiet /\ DataStart /\ KeyStart

ThemeNext ==
    \/ ThemeToggleClick
    \/ RetryTimerFires
    \/ ChartLibraryLoads

Next == ThemeNext

\* The session of the theme toggle and the charts.
Spec == Init /\ [][Next]_vars

NextSessions ==
    \/ ThemeToggleClick
    \/ RetryTimerFires
    \/ ChartLibraryLoads
    \/ NewSession

\* The theme over several loads of the page.
SpecSessions == Init /\ [][NextSessions]_vars

InitExport == ThemeQuiet /\ ExportInit /\ PredictQuiet /\ DataStart /\ KeyStart

ExportNext ==
    \/ \E throwAt \in 0..Len(PdfSteps) : exportToPDF(throwAt)
    \/ exportChartsAsImages
    \/ exportToCSV
    \/ \E b \in 1..Len(batches) : RasterizeResolves(b)
    \/ \E b \in 1..Len(batches) : RasterizeRejects(b)
    \/ InitTimerFires
    \/ Html2canvasLoads
    \/ JspdfLoads

NextExport == ExportNext

\* The session of the export operations.
SpecExport == InitExport /\ [][NextExport]_vars

InitPredict == ThemeQuiet /\ ExportQuiet /\ PredictInit /\ DataStart /\ KeyStart

InitData == ThemeQuiet /\ DataInit /\ PredictQuiet /\ KeyStart

NextData ==
    \/ ComputeResiduals
    \/ ComputeErrorHistogram
    \/ exportToCSV

\* The computations over a forecast bundle, for every bundle explored.
SpecData == InitData /\ [][NextData]_vars

NextKeys ==
    \/ KeyDown
    \/ CloseButtonClick
    \/ NoteFades
    \/ NoteRemoved

\* The keyboard shortcuts and the notifications with their timers.
InitKeys == ThemeQuiet /\ KeysInit /\ PredictQuiet /\ DataStart /\ KeyStart

SpecKeys == InitKeys /\ [][NextKeys]_vars

\* The same with the timers of the notifications firing when they are due.
SpecKeysLive == SpecKeys /\ WF_vars(NoteFades) /\ WF_vars(NoteRemoved)

\* The exports with the pending promises settling and the timer firing.
SpecExportLive ==
    /\ SpecExport
    /\ WF_vars(\E b \in 1..Len(batches) : RasterizeResolves(b) \/ RasterizeRejects(b))
    /\ WF_vars(InitTimerFires)

InitForecast == ThemeQuiet /\ ForecastInit /\ PredictQuiet /\ KeyStart

NextForecast ==
    \/ BuildForecastChart
    \/ ComputeResiduals
    \/ ComputeErrorHistogram

\* The chart data computed from a bundle, the one of the page's size included.
SpecForecast == InitForecast /\ [][NextForecast]_vars

NextPredict == handlePredictionSubmit

\* The prediction form: every submission of every form.
SpecPredict == InitPredict /\ [][NextPredict]_vars

\* ------------------------------------------------------- claims: the theme

LastEvents == [i \in 1..Len(snaps) |-> snaps[i].ev]

C2_DisposeBeforeRebuild ==
    [][toggles' = toggles + 1 =>
        /\ \A id \in ChartIdSet : charts[id] # 0 =>
               \E i \in 1..Len(evlog') : evlog'[i] = <<"destroy", charts[id]>>
        /\ \A i, j \in 1..Len(evlog') :
               evlog'[i][1] = "destroy" /\ evlog'[j][1] = "create" => i < j
        /\ ChartLoaded =>
               \A id \in surfaces :
                   /\ charts'[id] # 0
                   /\ charts'[id] > Len(handles)
                   /\ \E j \in 1..Len(evlog') : evlog'[j] = <<"create", charts'[id]>>
    ]_vars

C2_Witness ==
    /\ Len(snaps) > 0
    /\ snaps[Len(snaps)].ev = "toggle"
    /\ \E i, j \in 1..Len(evlog) :
           evlog[i][1] = "destroy" /\ evlog[j][1] = "create"

\* C3: after two consecutive theme toggles the persisted theme (an absent entry
\* read as the default 'light') and APP_STATE.currentTheme are back at their
\* values before the first toggle, every chart id that had a handle has another
\* one, and destroy() was called exactly once on each handle constructed before
\* the first toggle and on each handle the first toggle constructed.
C3_DoubleToggleReverts ==
    (LastEvents = <<"toggle", "toggle">>) =>
        LET pre == snaps[1].pre
            mid == snaps[2].pre
        IN  /\ stored = (IF pre.stored = "absent" THEN "light" ELSE pre.stored)
            /\ currentTheme = pre.currentTheme
            /\ \A id \in ChartIdSet :
                   pre.charts[id] # 0 => charts[id] # pre.charts[id]
            /\ \A k \in 1..Len(mid.handles) : handles[k].destroyed = 1

\* C17: a call of initializeCharts that finds Chart undefined creates no chart,
\* raises nothing and schedules one retry; the retry that still finds Chart
\* undefined schedules no further retry.
C17_RetryOnce ==
    [][~ChartLoaded =>
          /\ toggles' = toggles + 1 => evlog' = <<<<"retry", 0>>>>
          /\ retriesFired' = retriesFired + 1 =>
                 /\ evlog' = <<>>
                 /\ retryTimers' = retryTimers - 1
          /\ handles' = handles
      ]_vars

\* C18: after a theme toggle the persisted entry is 'light' or 'dark' and equals
\* APP_STATE.currentTheme, whatever the entry was when the session started.
C18_PersistedThemeAfterToggle ==
    toggles >= 1 => (stored \in {"light", "dark"} /\ stored = currentTheme)

\* The first toggle of a session that started with another string in the
\* entry.
C18_Witness ==
    /\ toggles = 1
    /\ Len(snaps) > 0
    /\ snaps[Len(snaps)].ev = "toggle"
    /\ snaps[Len(snaps)].pre.stored = "other"
    /\ stored = "light"

\* C19: a session starts with the theme the session before it ended with, with
\* 'light' when there is no entry, and APP_STATE.currentTheme is 'light' or
\* 'dark' in every state.
C19_ThemeSurvivesSessions ==
    /\ currentTheme \in {"light", "dark"}
    /\ (Len(snaps) > 0 /\ snaps[Len(snaps)].ev = "session") =>
           LET pre == snaps[Len(snaps)].pre
           IN  /\ currentTheme = pre.currentTheme
               /\ pre.stored = "absent" => currentTheme = "light"

C29_BodyClassFollowsTheme ==
    bodyDark = (currentTheme = "dark")


\* ----------------------------------------------------- claims: the exports

BatchIds == 1..Len(batches)

\* The last event was an export invocation (a click or a shortcut).
Invoked(op) == last.op = op

\* C4: in a batch of two or more canvases a failed rasterization stops the
\* batch: no download of that batch follows a failure, and the batch issues
\* one error notification at most.
C4_FailureAbortsBatch ==
    \A b \in BatchIds :
        batches[b].n >= 2 =>
            /\ ~batches[b].lateDownload
            /\ batches[b].errorToasts <= 1

\* C5: a batch reports success at most once, only when all its n canvases were
\* rasterized and downloaded, and never together with an error of that batch;
\* a success notification is issued by no event but the .then callback that
\* completes a batch.
C5_SuccessOnlyWhenAllExported ==
    /\ \A b \in BatchIds :
           LET bt == batches[b]
           IN  /\ bt.successToasts <= 1
               /\ bt.successToasts = 1 =>
                      /\ bt.exportedCount = bt.n
                      /\ bt.downloads = bt.n
                      /\ Pending(bt) = 0
               /\ ~(bt.successToasts >= 1 /\ bt.errorToasts >= 1)
               /\ bt.errorToasts >= 1 => bt.exportedCount < bt.n
    /\ (last.op = "then" /\ Count(last.toasts, "success") > 0) =>
           /\ Count(last.toasts, "success") = 1
           /\ \E b \in BatchIds :
                  batches[b].successToasts = 1 /\ batches[b].exportedCount = batches[b].n
    /\ last.op = "catch" => Count(last.toasts, "success") = 0

C5_Witness ==
    \E b \in BatchIds :
        /\ batches[b].n >= 2
        /\ batches[b].successToasts = 1
        /\ last.op = "then"
        /\ last.toasts = <<"success">>

\* C6: exportChartsAsImages without html2canvas issues one error notification
\* and nothing else: no download, no batch of rasterizations, the overlay as it
\* was.
C6_MissingRasterizer ==
    [][(exportsCount' = exportsCount + 1 /\ last'.op = "exportChartsAsImages"
        /\ ~html2canvasLoaded) =>
           /\ last'.toasts = <<"error">>
           /\ last'.downloads = 0
           /\ overlay' = overlay
           /\ batches' = batches
      ]_vars

C6_Witness ==
    /\ Invoked("exportChartsAsImages")
    /\ ~html2canvasLoaded
    /\ overlayEl /\ ~overlay
    /\ last.toasts = <<"error">>
    /\ batches = <<>>

\* C7: exportToPDF without jspdf issues one error notification and nothing
\* else: no jsPDF call (so no save), no file, the overlay as it was.
C7_MissingPdfLibrary ==
    [][(exportsCount' = exportsCount + 1 /\ last'.op = "exportToPDF" /\ ~jspdfLoaded) =>
           /\ last'.toasts = <<"error">>
           /\ last'.calls = <<>>
           /\ last'.downloads = 0
           /\ overlay' = overlay
      ]_vars

C7_Witness ==
    /\ Invoked("exportToPDF")
    /\ ~jspdfLoaded
    /\ overlayEl /\ ~overlay
    /\ last.toasts = <<"error">>

\* C8: exportToPDF with jspdf present. When a jsPDF call throws: one error
\* notification, no success notification, no file, the overlay inactive on
\* return. When none throws: save is the last call and the only save, one
\* success notification, no error notification, the overlay inactive on return.
C8_PdfCompositionOutcome ==
    [][(exportsCount' = exportsCount + 1 /\ last'.op = "exportToPDF" /\ jspdfLoaded) =>
           /\ ~overlay'
           /\ last'.threw =>
                  /\ Count(last'.toasts, "error") = 1
                  /\ Count(last'.toasts, "success") = 0
                  /\ last'.downloads = 0
           /\ ~last'.threw =>
                  /\ last'.calls # <<>>
                  /\ last'.calls[Len(last'.calls)] = "save"
                  /\ Count(last'.calls, "save") = 1
                  /\ Count(last'.toasts, "success") = 1
                  /\ Count(last'.toasts, "error") = 0
                  /\ last'.downloads = 1
      ]_vars

C8_Witness ==
    /\ Invoked("exportToPDF")
    /\ jspdfLoaded
    /\ overlayEl
    /\ last.threw
    /\ last.calls # <<>>
    /\ last.calls[Len(last.calls)] = "save"
    /\ last.toasts = <<"info", "error">>

\* C9: an export invocation that did not complete its export has issued an
\* error notification: the synchronous ones by the time the handler returns, a
\* batch of rasterizations by the time its last promise has settled.
C9_NoSilentFailure ==
    /\ (last.op \in {"exportToCSV", "exportToPDF"} /\ last.downloads = 0) =>
           Count(last.toasts, "error") >= 1
    /\ (last.op = "exportChartsAsImages" /\ ~html2canvasLoaded) =>
           Count(last.toasts, "error") >= 1
    /\ \A b \in BatchIds :
           (Pending(batches[b]) = 0 /\ batches[b].successToasts = 0) =>
               batches[b].errorToasts >= 1


\* ------------------------------------------------------ claims: the data

\* String.prototype.split: the pieces of the text between the separators c.
RECURSIVE SplitOn(_, _)
SplitOn(text, c) ==
    LET at == {i \in 1..Len(text) : text[i].t = "sep" /\ text[i].s = c}
    IN  IF at = {} THEN <<text>>
        ELSE LET k == CHOOSE i \in at : \A j \in at : i <= j
             IN  <<SubSeq(text, 1, k - 1)>> \o SplitOn(SubSeq(text, k + 1, Len(text)), c)

\* The number a numeric field reads as, in hundredths.
ParseHundredths(field) ==
    (IF field.s = "-" THEN -1 ELSE 1) * (100 * field.n + field.f)

\* h hundredths is v8 eighths rounded to two decimals, a half going up.
RoundedTo2(h, v8) == 0 <= 2 * h - 25 * v8 /\ 2 * h - 25 * v8 <= 1

RECURSIVE SumSeq(_)
SumSeq(q) == IF Len(q) = 0 THEN 0 ELSE q[1] + SumSeq(Tail(q))

\* The absolute errors of the bundle that are numbers and at least v.
AtLeast(v) ==
    LET errors == AbsoluteErrors(bundle.actual, bundle.ebm)
    IN  Cardinality({i \in 1..Len(errors) : \E e \in errors[i] : e >= v})

C14_HistogramBins ==
    \A k \in 1..Len(histogramData) :
        LET h == histogramData[k]
            errors == AbsoluteErrors(bundle.actual, bundle.ebm)
        IN  /\ Len(bins) >= 2
            /\ \A j \in 1..(Len(bins) - 1) : bins[j] < bins[j + 1]
            /\ Len(h) = Len(bins) - 1
            /\ \A j \in 1..Len(h) : h[j] = AtLeast(bins[j]) - AtLeast(bins[j + 1])
            /\ \A i \in 1..Len(errors) :
                   Cardinality({j \in 1..Len(h) :
                       \E e \in errors[i] : bins[j] <= e /\ e < bins[j + 1]}) <= 1
            /\ SumSeq(h) = AtLeast(bins[1]) - AtLeast(bins[Len(bins)])

\* An error exactly on an inner edge and one at or above the last edge.
C14_Witness ==
    /\ histogramData # <<>>
    /\ LET errors == AbsoluteErrors(bundle.actual, bundle.ebm)
       IN  /\ \E i \in 1..Len(errors) : errors[i] = {bins[2]}
           /\ \E i \in 1..Len(errors) : \E e \in errors[i] : e >= bins[Len(bins)]
           /\ SumSeq(histogramData[1]) < Len(errors)

\* C15: for a well-formed bundle of N dates exportToCSV raises nothing,
\* triggers one download and one notification, and the text has N + 1 lines:
\* the header Date,Prophet_Forecast,EBM_Forecast, then for each date in order
\* the date, the prophet value and the ebm value, each number with two decimals.
C15_CsvLayout ==
    (last.op = "exportToCSV" /\ WellFormed(bundle)) =>
        LET lines == SplitOn(csvFile, "\n")
            b == bundle
        IN  /\ ~last.threw
            /\ last.downloads = 1
            /\ last.toasts = <<"plain">>
            /\ Len(lines) = Len(b.dates) + 1
            /\ lines[1] = <<TextField("Date"), Sep(","), TextField("Prophet_Forecast"),
                            Sep(","), TextField("EBM_Forecast")>>
            /\ \A i \in 1..Len(b.dates) :
                   LET line == lines[i + 1]
                   IN  /\ Len(line) = 5
                       /\ line[1] = DateField(b.dates[i])
                       /\ line[2] = Sep(",") /\ line[4] = Sep(",")
                       /\ line[3].t = "num" /\ line[5].t = "num"
                       /\ line[3].f \in 0..99 /\ line[5].f \in 0..99
                       /\ RoundedTo2(100 * line[3].n + line[3].f, b.prophet[i])
                       /\ RoundedTo2(100 * line[5].n + line[5].f, b.ebm[i])

C15_Witness ==
    /\ last.op = "exportToCSV"
    /\ WellFormed(bundle)
    /\ Len(bundle.dates) >= 2
    /\ Len(csvFile) > 5

\* C16: for a well-formed bundle, the text of exportToCSV split on '\n' and ','
\* with the header row dropped gives back the dates, and the prophet and ebm
\* values rounded to two decimals, in their order and number.
C16_CsvRoundTrip ==
    (last.op = "exportToCSV" /\ WellFormed(bundle)) =>
        LET rows == Tail(SplitOn(csvFile, "\n"))
            b == bundle
        IN  /\ Len(rows) = Len(b.dates)
            /\ \A i \in 1..Len(rows) :
                   LET fields == SplitOn(rows[i], ",")
                   IN  /\ Len(fields) = 3
                       /\ \A c \in 1..3 : Len(fields[c]) = 1
                       /\ fields[1][1].t = "date" /\ fields[1][1].n = b.dates[i]
                       /\ fields[2][1].t = "num" /\ fields[3][1].t = "num"
                       /\ RoundedTo2(ParseHundredths(fields[2][1]), b.prophet[i])
                       /\ RoundedTo2(ParseHundredths(fields[3][1]), b.ebm[i])

\* A value that lies halfway between two hundredths.
C16_Witness ==
    /\ last.op = "exportToCSV"
    /\ WellFormed(bundle)
    /\ \E i \in 1..Len(bundle.dates) : bundle.ebm[i] % 8 = 3
    /\ \E i \in 1..Len(bundle.dates) : bundle.prophet[i] % 8 = 1


\* -------------------------------------------------- claims: the prediction

\* C10: every result displayed has 0 <= lowerBound <= prediction <= upperBound
\* with the two bounds within half a step of 0.85 and 1.15 times the
\* prediction, and a confidence strictly between 0 and 1.
C10_ResultWithinBounds ==
    \A i \in 1..Len(shown) :
        /\ 0 <= shown[i].lowerBound
        /\ shown[i].lowerBound <= shown[i].prediction
        /\ shown[i].prediction <= shown[i].upperBound
        /\ 100 * shown[i].lowerBound - 85 * shown[i].prediction \in (-50)..50
        /\ 100 * shown[i].upperBound - 115 * shown[i].prediction \in (-50)..50
        /\ 0 < shown[i].confidence /\ shown[i].confidence < 10000

\* A result whose upper bound is a halfway case that the binary product has
\* taken down.
C10_Witness ==
    /\ shown # None
    /\ shown[1].prediction > 0
    /\ (115 * shown[1].prediction) % 100 = 50
    /\ shown[1].upperBound = (115 * shown[1].prediction) \div 100

\* C11: the point estimate is max(0, round(baseline + therapies * (-200) +
\* sideEffects * (-150) + noise)), baseline, therapies and sideEffects being what
\* the handler read from the form: it is 0 when the sum rounds to 0 or less and
\* else the integer within half a step of the sum, the upper one at a half; for
\* therapies 2, side effects 3, baseline 8000 and noise 0 it is 7150.
C11_PointEstimateFormula ==
    \A i \in 1..Len(shown) :
        LET sum2 == 2 * (ParseIntOr(form.lastWeekSteps, 8000)
                         + ParseIntOr(form.therapies, 0) * (-200)
                         + ParseIntOr(form.sideEffects, 0) * (-150))
                    + draws[i].noiseHalves
            point == shown[i].prediction
        IN  /\ point >= 0
            /\ sum2 < 0 => point = 0
            /\ point > 0 => (2 * point - 1 <= sum2 /\ sum2 < 2 * point + 1)
            /\ point = 0 => sum2 < 1
            /\ (form.therapies = {2} /\ form.sideEffects = {3}
                /\ form.lastWeekSteps = {8000} /\ draws[i].noiseHalves = 0)
                   => point = 7150

\* The example of the claim.
C11_Witness ==
    /\ shown # None
    /\ form.therapies = {2} /\ form.sideEffects = {3} /\ form.lastWeekSteps = {8000}
    /\ draws[1].noiseHalves = 0
    /\ shown[1].prediction = 7150

C20_PredictionStored ==
    /\ shown # None => currentPrediction = shown
    /\ currentPrediction = None => shown = None

\* C21: every submission produces a result; a therapies or side-effects field
\* that is not a number counts as 0 and a baseline field that is not a number as
\* 8000; a therapies field >= 0, a side-effects field in 0..10 and a baseline
\* field > 0 are used as they are.
C21_FallbacksNeverBlock ==
    /\ ENABLED handlePredictionSubmit
    /\ \A i \in 1..Len(shown) :
           LET Used(field, fallback, valid) ==
                   IF field = NaN THEN fallback
                   ELSE IF \E n \in field : n \in valid THEN CHOOSE n \in field : TRUE
                   ELSE ParseIntOr(field, fallback)
               therapies == Used(form.therapies, 0, 0..MaxTherapies)
               sideEffects == Used(form.sideEffects, 0, 0..10)
               baseline == Used(form.lastWeekSteps, 8000, 1..100000)
               sum2 == 2 * (baseline + therapies * (-200) + sideEffects * (-150))
                       + draws[i].noiseHalves
               point == shown[i].prediction
           IN  /\ shown[i].therapies = therapies
               /\ shown[i].sideEffects = sideEffects
               /\ point > 0 => (2 * point - 1 <= sum2 /\ sum2 < 2 * point + 1)
               /\ point = 0 => sum2 < 1

\* A result from a form whose three numeric fields are not numbers.
C21_Witness ==
    /\ shown # None
    /\ form.therapies = NaN /\ form.sideEffects = NaN /\ form.lastWeekSteps = NaN
    /\ shown[1].therapies = 0 /\ shown[1].sideEffects = 0
    /\ shown[1].prediction >= 7750

\* ------------------------------------- claims: notifications and shortcuts

\* The notifications of a session, numbered in the order they are issued.
NoteIds == 1..(MaxNotes + 2 * MaxExports)

\* The i-th notification issued is in the page.
Present(i) == removedNotes < i /\ i <= removedNotes + Len(notes)

\* C22: every notification shown is removed from the page later on, by its
\* timers alone, whatever key presses and exports happen meanwhile.
C22_NotificationsAutoDismiss ==
    \A i \in NoteIds : Present(i) ~> (removedNotes >= i)

\* Two notifications are gone, a later one is in the page, and the help modal
\* was opened meanwhile.
C22_Witness ==
    /\ removedNotes >= 2
    /\ notes # <<>>
    /\ modal = 1

\* C23: a step that issues notifications leaves the ones in the page where they
\* are, in the phase they are in, and returns with the new ones shown; a
\* dismissal timer that fires moves one notification to its fade-out, or removes
\* one notification and no other.
C23_NotificationsIndependent ==
    [][\/ /\ notes' = notes
          /\ removedNotes' = removedNotes
       \/ /\ removedNotes' = removedNotes
          /\ Len(notes') > Len(notes)
          /\ SubSeq(notes', 1, Len(notes)) = notes
          /\ \A i \in (Len(notes) + 1)..Len(notes') : notes'[i].phase = "shown"
       \/ /\ removedNotes' = removedNotes
          /\ Len(notes') = Len(notes)
          /\ \E i \in 1..Len(notes) :
                 /\ notes[i].phase = "shown"
                 /\ notes' = [notes EXCEPT ![i].phase = "hiding"]
       \/ /\ removedNotes' = removedNotes + 1
          /\ Len(notes) > 0
          /\ notes' = Tail(notes)]_vars

\* Three notifications of both makers shown at once, none fading.
C23_Witness ==
    /\ Len(notes) >= 3
    /\ \A i \in 1..Len(notes) : notes[i].phase = "shown"
    /\ \E i, j \in 1..Len(notes) :
           notes[i].via = "toast" /\ notes[j].via = "notification"

\* C28: at most one help modal is in the page, and one is there exactly when
\* the last of the '?' presses, Escape presses and Close clicks was a '?'.
C28_OneHelpModal ==
    /\ modal <= 1
    /\ (modal = 1) <=> (helpKeys # <<>> /\ helpKeys[Len(helpKeys)] = "?")

\* '?' pressed while the modal is open.
C28_Witness ==
    /\ helpKeys = <<"?", "?">>
    /\ modal = 1

\* ----------------------------------------- claims: exports in flight

\* The batches of the chart-image export with rasterizations still pending.
InFlight == {b \in 1..Len(batches) : Pending(batches[b]) > 0}

\* C24: at most one chart-image export has rasterizations pending.
C24_OneImageExportInFlight ==
    Cardinality(InFlight) <= 1

\* C26: an invocation of exportChartsAsImages that has activated the overlay is
\* followed by a state in which the overlay is not active.
C26_OverlayEventuallyHidden ==
    (last.op = "exportChartsAsImages" /\ last.toasts = <<"info">> /\ overlay)
        ~> ~overlay

\* C27: the overlay is active while a chart-image export has rasterizations
\* pending.
C27_OverlayWhileInFlight ==
    (overlayEl /\ InFlight # {}) => overlay

\* ------------------------------------- claims: the forecast chart data

\* C30: of a bundle with dates, prophet and ebm of one length and an actual
\* series no longer, no series handed to the forecast-comparison chart is longer
\* than its labels.
C30_SeriesWithinLabels ==
    \A i \in 1..Len(forecastData) :
        WellFormed(bundle) =>
            /\ Len(forecastData[i].actual) <= Len(forecastData[i].labels)
            /\ Len(forecastData[i].prophet) <= Len(forecastData[i].labels)
            /\ Len(forecastData[i].ebm) <= Len(forecastData[i].labels)

====
